---------------------------- MODULE Spec2Model ----------------------------
(***************************************************************************)
(* State-machine models of the contract-bearing pieces of the repository:  *)
(*   - Chain.__call__            (langchain/chains/base.py)                *)
(*   - MRKLOutputParser.parse    (langchain/agents/mrkl/output_parser.py)  *)
(*   - NebulaGraph.query         (langchain/graphs/nebula_graph.py)        *)
(*   - RouterRunnable.batch/abatch (schema/runnable/router.py)             *)
(*   - ConversationTokenBufferMemory.save_context (memory/token_buffer.py) *)
(*   - RecursiveUrlLoader   (document_loaders/recursive_url_loader.py)    *)
(*   - SQLChatMessageHistory (community chat_message_histories/sql.py)     *)
(*   - _unique_documents    (tests/unit_tests/retrievers)                  *)
(* Each piece has its own variables, its own Init/Next and its own         *)
(* specification; the variables of the other pieces stay at their idle     *)
(* values.                                                                 *)
(***************************************************************************)
EXTENDS Integers, Sequences, FiniteSets, TLC

VARIABLES
    piece,             \* which piece of the repository this run exercises
    \* ---- Chain (chains/base.py) ----
    input_keys,        \* Chain.input_keys (a list of key names)
    output_keys,       \* Chain.output_keys
    has_memory,        \* Chain.memory is not None
    mem_store,         \* contents of the Memory object (saved contexts)
    chain_status,      \* "idle" | "returned" | "ValueError": outcome of the last __call__
    chain_orig,        \* the caller's `inputs` argument of the last __call__
    chain_ronly,       \* the return_only_outputs argument of the last __call__
    chain_called,      \* _call was invoked during the last __call__
    chain_saved,       \* memory.save_context was invoked during the last __call__
    chain_inputs,      \* the dictionary handed to _call
    chain_outputs,     \* the dictionary _call produced
    chain_result,      \* the dictionary __call__ returned
    chain_mem_before,  \* mem_store when the last __call__ started
    \* ---- MRKLOutputParser (agents/mrkl/output_parser.py) ----
    text,              \* the LLM output handed to parse, a sequence of tokens
    parsed,            \* what parse produced for it ("none" before the call)
    \* ---- NebulaGraph.query (graphs/nebula_graph.py) ----
    neb_status,        \* "idle" | "running" | "returned" | "returned_None" | "ValueError"
    neb_retry,         \* the `retry` argument of the innermost query frame
    neb_log,           \* outcomes of the execute_parameter attempts of this call
    neb_pools,         \* session pools created after the constructor's
    neb_calls,         \* top-level calls started so far
    \* ---- RouterRunnable.batch / abatch (schema/runnable/router.py) ----
    rt_status,         \* "idle" | "running" | "returned" | "raised"
    rt_mode,           \* "batch" (thread pool) | "abatch" (async gather)
    rt_inputs,         \* the `inputs` argument: a list of RouterInput
    rt_rexc,           \* the return_exceptions argument
    rt_config,         \* the config: [limited, n] for max_concurrency None / n
    rt_task,           \* per input position: "pending" | "running" | "done"
    rt_slot,           \* per input position: what its call produced
    rt_order,          \* input positions in the order their calls completed
    rt_result,         \* the list the call returned
    \* ---- ConversationTokenBufferMemory (memory/token_buffer.py) ----
    tb_limit,          \* max_token_limit
    tb_overhead,       \* tokens the llm counts for an empty message list
    tb_buffer,         \* chat_memory.messages: the token size of each message
    tb_status,         \* "idle" | "returned" | "IndexError": last save_context
    tb_added,          \* the two messages the last save_context appended
    tb_saves,          \* save_context calls so far
    \* ---- RecursiveUrlLoader (document_loaders/recursive_url_loader.py) ----
    ld_site,           \* the web site: the hrefs in the HTML of each existing page
    ld_max_depth,      \* RecursiveUrlLoader.max_depth
    ld_exclude,        \* RecursiveUrlLoader.exclude_dirs
    ld_prevent,        \* RecursiveUrlLoader.prevent_outside
    ld_phase,          \* "idle" | "sync" | "async" | "done": the two loads in turn
    ld_stack,          \* call stack of _get_child_links_recursive
    ld_visited,        \* the `visited` set of the load under way
    ld_sync_docs,      \* sources of the Documents the synchronous load yielded
    ld_sync_fetched,   \* [url, depth] of every requests.get of the synchronous load
    ld_frames,         \* pending calls of _async_get_child_links_recursive
    ld_async_docs,     \* sources of the Documents the asynchronous load returned
    ld_async_fetched,  \* every url the asynchronous load fetched
    \* ---- SQLChatMessageHistory (chat_message_histories/sql.py) ----
    sq_async,          \* SQLChatMessageHistory.async_mode of the histories
    sq_table,          \* the committed rows of the shared message table
    sq_batch,          \* the add_messages / aadd_messages call under way or last ended
    sq_expected,       \* per session_id: the messages added since its last clear
    sq_read,           \* what the last messages / aget_messages call returned
    sq_calls,          \* add_message and add_messages calls made so far
    \* ---- _unique_documents (retrievers/multi_query.py, tested in test_multi_query.py) ----
    ud_documents,      \* the `documents` argument
    ud_status,         \* "idle" | "returned" | "returned_twice"
    ud_result,         \* _unique_documents(documents)
    ud_again           \* _unique_documents(_unique_documents(documents))

chainVars == <<input_keys, output_keys, has_memory, mem_store, chain_status,
               chain_orig, chain_ronly, chain_called, chain_saved, chain_inputs,
               chain_outputs, chain_result, chain_mem_before>>

parserVars == <<text, parsed>>

nebulaVars == <<neb_status, neb_retry, neb_log, neb_pools, neb_calls>>

routerVars == <<rt_status, rt_mode, rt_inputs, rt_rexc, rt_config, rt_task,
                rt_slot, rt_order, rt_result>>

bufferVars == <<tb_limit, tb_overhead, tb_buffer, tb_status, tb_added, tb_saves>>

loaderVars == <<ld_site, ld_max_depth, ld_exclude, ld_prevent, ld_phase,
                ld_stack, ld_visited, ld_sync_docs, ld_sync_fetched,
                ld_frames, ld_async_docs, ld_async_fetched>>

sqlVars == <<sq_async, sq_table, sq_batch, sq_expected, sq_read, sq_calls>>

uniqueVars == <<ud_documents, ud_status, ud_result, ud_again>>

vars == <<piece, chainVars, parserVars, nebulaVars, routerVars, bufferVars, loaderVars, sqlVars, uniqueVars>>

\* What each piece leaves alone.
notChain == <<piece, parserVars, nebulaVars, routerVars, bufferVars, loaderVars, sqlVars, uniqueVars>>
notParser == <<piece, chainVars, nebulaVars, routerVars, bufferVars, loaderVars, sqlVars, uniqueVars>>
notNebula == <<piece, chainVars, parserVars, routerVars, bufferVars, loaderVars, sqlVars, uniqueVars>>
notRouter == <<piece, chainVars, parserVars, nebulaVars, bufferVars, loaderVars, sqlVars, uniqueVars>>
notBuffer == <<piece, chainVars, parserVars, nebulaVars, routerVars, loaderVars, sqlVars, uniqueVars>>
notLoader == <<piece, chainVars, parserVars, nebulaVars, routerVars, bufferVars, sqlVars, uniqueVars>>
notSql == <<piece, chainVars, parserVars, nebulaVars, routerVars, bufferVars, loaderVars, uniqueVars>>
notUnique == <<piece, chainVars, parserVars, nebulaVars, routerVars, bufferVars, loaderVars, sqlVars>>

----------------------------------------------------------------------------
(* Generic helpers *)

Range(s) == {s[i] : i \in DOMAIN s}

\* A Python dict: a function from a finite set of keys to values.
EmptyDict == [k \in {} |-> <<>>]

DictsOver(K, V) == UNION {[D -> V] : D \in SUBSET K}

----------------------------------------------------------------------------
(* Chain.__call__ : src/langchain/chains/base.py                          *)

\* Bound: number of contexts the memory may hold before calls stop saving.
MaxSaved == 2

ChainKeys == {"q", "history", "answer"}
InVals == {<<"i1">>}
OutVals == {<<"o1">>}
MemoryKey == "history"

InputKeyLists == {<<>>, <<"q">>, <<"q", "history">>}
OutputKeyLists == {<<"answer">>, <<"q">>, <<"answer", "history">>}

\* The caller's argument: a dict, or a single non-dict value.
DictInput(d) == [kind |-> "dict", d |-> d, v |-> <<>>]
SingleInput(v) == [kind |-> "single", d |-> EmptyDict, v |-> v]
CallerInputs == {DictInput(d) : d \in DictsOver(ChainKeys, InVals)}
                  \cup {SingleInput(v) : v \in InVals}

\* dict(a, **b) and {**a, **b}: the keys of both, b's value where both have one.
Merge(a, b) == [k \in (DOMAIN a) \cup (DOMAIN b) |->
                    IF k \in DOMAIN b THEN b[k] ELSE a[k]]

\* Memory.load_memory_variables: the memory's variables, read from its store.
LoadMemoryVariables(store) == [k \in {MemoryKey} |-> store]

\* Memory.save_context: one more saved context.
SaveContext(store, inputs, outputs) == Append(store, "turn")

\* Faulty variant: only the first declared key is checked.
MissingKeysFirstOnly(keys, inputs) ==
    IF Len(keys) = 0 THEN {} ELSE {keys[1]} \ DOMAIN inputs

\* Chain._validate_inputs: set(self.input_keys).difference(inputs)
MissingKeys(keys, inputs) == Range(keys) \ DOMAIN inputs

\* Faulty variant: extra keys in the outputs are accepted.
OutputsValidNoExtraCheck(keys, outputs) == Range(keys) \subseteq DOMAIN outputs

\* Chain._validate_outputs: set(outputs) == set(self.output_keys)
OutputsValid(keys, outputs) == DOMAIN outputs = Range(keys)

\* Faulty variant: the inputs are laid over the outputs.
ReturnValueInputsWin(inputs, outputs, ronly) ==
    IF ronly THEN outputs ELSE Merge(outputs, inputs)

\* The return statement of Chain.__call__.
ReturnValue(inputs, outputs, ronly) ==
    IF ronly THEN outputs ELSE Merge(inputs, outputs)

\* The inputs dictionary after the isinstance branch (when it does not raise).
AsDict(ikeys, orig) ==
    IF orig.kind = "dict" THEN orig.d ELSE [k \in {ikeys[1]} |-> orig.v]

\* The inputs dictionary after memory variables have been merged in.
Merged(ikeys, orig, mem, store) ==
    IF mem THEN Merge(AsDict(ikeys, orig), LoadMemoryVariables(store))
    ELSE AsDict(ikeys, orig)

InitChain ==
    /\ input_keys \in InputKeyLists
    /\ output_keys \in OutputKeyLists
    /\ has_memory \in BOOLEAN
    /\ mem_store = <<>>
    /\ chain_status = "idle"
    /\ chain_orig = DictInput(EmptyDict)
    /\ chain_ronly = FALSE
    /\ chain_called = FALSE
    /\ chain_saved = FALSE
    /\ chain_inputs = EmptyDict
    /\ chain_outputs = EmptyDict
    /\ chain_result = EmptyDict
    /\ chain_mem_before = <<>>

IdleChain ==
    /\ input_keys = <<>>
    /\ output_keys = <<>>
    /\ has_memory = FALSE
    /\ mem_store = <<>>
    /\ chain_status = "idle"
    /\ chain_orig = DictInput(EmptyDict)
    /\ chain_ronly = FALSE
    /\ chain_called = FALSE
    /\ chain_saved = FALSE
    /\ chain_inputs = EmptyDict
    /\ chain_outputs = EmptyDict
    /\ chain_result = EmptyDict
    /\ chain_mem_before = <<>>

\* One whole Chain.__call__(inputs, return_only_outputs); `outs` is what the
\* abstract _call returns when it is reached.
ChainCall(orig, ronly, outs) ==
    /\ piece = "chain"
    /\ Len(mem_store) < MaxSaved
    /\ chain_orig' = orig
    /\ chain_ronly' = ronly
    /\ chain_mem_before' = mem_store
    /\ UNCHANGED <<input_keys, output_keys, has_memory>>
    /\ UNCHANGED notChain
    /\ IF orig.kind = "single" /\ Len(input_keys) # 1
       THEN \* lines 90-97: a single value for a chain without exactly one input key
            /\ chain_status' = "ValueError"
            /\ chain_called' = FALSE
            /\ chain_saved' = FALSE
            /\ chain_inputs' = EmptyDict
            /\ chain_outputs' = EmptyDict
            /\ chain_result' = EmptyDict
            /\ UNCHANGED mem_store
       ELSE LET inputs == Merged(input_keys, orig, has_memory, mem_store)
            IN  IF MissingKeys(input_keys, inputs) # {}
                THEN \* line 102: _validate_inputs raises
                     /\ chain_status' = "ValueError"
                     /\ chain_called' = FALSE
                     /\ chain_saved' = FALSE
                     /\ chain_inputs' = EmptyDict
                     /\ chain_outputs' = EmptyDict
                     /\ chain_result' = EmptyDict
                     /\ UNCHANGED mem_store
                ELSE \* line 107: outputs = self._call(inputs)
                     /\ chain_called' = TRUE
                     /\ chain_inputs' = inputs
                     /\ chain_outputs' = outs
                     /\ IF ~OutputsValid(output_keys, outs)
                        THEN \* line 110: _validate_outputs raises
                             /\ chain_status' = "ValueError"
                             /\ chain_saved' = FALSE
                             /\ chain_result' = EmptyDict
                             /\ UNCHANGED mem_store
                        ELSE \* lines 111-116
                             /\ chain_status' = "returned"
                             /\ chain_saved' = has_memory
                             /\ mem_store' = IF has_memory
                                             THEN SaveContext(mem_store, inputs, outs)
                                             ELSE mem_store
                             /\ chain_result' = ReturnValue(inputs, outs, ronly)

NextChain ==
    \E orig \in CallerInputs, ronly \in BOOLEAN, outs \in DictsOver(ChainKeys, OutVals) :
        ChainCall(orig, ronly, outs)

----------------------------------------------------------------------------
(* MRKLOutputParser.parse : src/langchain/agents/mrkl/output_parser.py     *)
(*                                                                         *)
(* A text is a sequence of tokens, concatenated without separators:        *)
(*   "A" = Action   "N" = Input   "C" = ":"   "S" = one whitespace         *)
(*   "D" = one digit   "F" = Final Answer:   "W" = any other character     *)
(* The parser's patterns distinguish no more than these classes.  The      *)
(* texts hold no double quote and no SELECT, so line 50-51's quote         *)
(* stripping leaves them as they are.                                      *)

\* Bound: length of the LLM output in tokens.
MaxLen == 6

Tokens == {"A", "N", "C", "S", "D", "F", "W"}

Texts == UNION {[1..n -> Tokens] : n \in 0..MaxLen}

\* The first index >= i of t that does not hold token tok (Len(t)+1 if none).
RECURSIVE SkipWhile(_, _, _)
SkipWhile(t, i, tok) ==
    IF i <= Len(t) /\ t[i] = tok THEN SkipWhile(t, i + 1, tok) ELSE i

\* \s*\d*\s* from index i: the index after it.
SkipSDS(t, i) == SkipWhile(t, SkipWhile(t, SkipWhile(t, i, "S"), "D"), "S")

HasToken(t, i, tok) == i >= 1 /\ i <= Len(t) /\ t[i] = tok

\* Faulty variant: the colon after Action is not required.
MatchActionNoColon(t, i) ==
    IF HasToken(t, i, "A") THEN SkipSDS(t, i + 1) ELSE 0

\* Action\s*\d*\s*: at index i: the index after the match, 0 if none.
MatchAction(t, i) ==
    IF HasToken(t, i, "A")
    THEN LET k == SkipSDS(t, i + 1)
         IN  IF HasToken(t, k, "C") THEN k + 1 ELSE 0
    ELSE 0

\* Action\s*\d*\s*Input\s*\d*\s*: at index j: the index after the match, 0 if none.
MatchActionInput(t, j) ==
    IF HasToken(t, j, "A")
    THEN LET k == SkipSDS(t, j + 1)
         IN  IF HasToken(t, k, "N")
             THEN LET m == SkipSDS(t, k + 1)
                  IN  IF HasToken(t, m, "C") THEN m + 1 ELSE 0
             ELSE 0
    ELSE 0

\* The first index >= j where Action..Input..: matches, 0 if none.
RECURSIVE FirstActionInput(_, _)
FirstActionInput(t, j) ==
    IF j > Len(t) THEN 0
    ELSE IF MatchActionInput(t, j) # 0 THEN j
    ELSE FirstActionInput(t, j + 1)

\* str.strip(): t[lo..hi] without its leading and trailing whitespace.
RECURSIVE StripRight(_, _, _)
StripRight(t, lo, hi) ==
    IF hi >= lo /\ t[hi] = "S" THEN StripRight(t, lo, hi - 1) ELSE hi

Strip(t, lo, hi) ==
    LET a == IF lo > hi THEN lo ELSE
             (IF SkipWhile(t, lo, "S") > hi THEN hi + 1 ELSE SkipWhile(t, lo, "S"))
        b == StripRight(t, a, hi)
    IN  SubSeq(t, a, b)

\* re.search(regex, text, re.DOTALL) of line 24: the leftmost index i where
\* Action: matches and Action Input: matches somewhere after it, with the
\* lazy group 1 ending at the first such place.  [i, e1, j, e2] or i = 0.
RECURSIVE RegexSearch(_, _)
RegexSearch(t, i) ==
    IF i > Len(t) THEN [i |-> 0, e1 |-> 0, j |-> 0, e2 |-> 0]
    ELSE LET e1 == MatchAction(t, i)
             j  == IF e1 = 0 THEN 0 ELSE FirstActionInput(t, e1)
         IN  IF e1 # 0 /\ j # 0
             THEN [i |-> i, e1 |-> e1, j |-> j, e2 |-> MatchActionInput(t, j)]
             ELSE RegexSearch(t, i + 1)

\* re.search of line 26: Action\s*\d*\s*: anywhere.
RECURSIVE SearchAction(_, _)
SearchAction(t, i) ==
    IF i > Len(t) THEN FALSE
    ELSE MatchAction(t, i) # 0 \/ SearchAction(t, i + 1)

\* FINAL_ANSWER_ACTION in text
HasFinalAnswer(t) == \E i \in 1..Len(t) : t[i] = "F"

\* The index of the last Final Answer: of t.
LastFinal(t) == CHOOSE i \in 1..Len(t) : t[i] = "F" /\ \A k \in (i+1)..Len(t) : t[k] # "F"

NoResult == [kind |-> "none", tool |-> <<>>, tool_input |-> <<>>,
             output |-> <<>>, observation |-> "none"]

\* Faulty variant: the Action / Action Input pair is tried first, Final Answer: last.
ParseActionFirst(t) ==
    LET m == RegexSearch(t, 1)
    IN  IF m.i # 0
        THEN [kind |-> "AgentAction",
              tool |-> Strip(t, m.e1, m.j - 1),
              tool_input |-> Strip(t, m.e2, Len(t)),
              output |-> <<>>, observation |-> "none"]
        ELSE IF HasFinalAnswer(t)
        THEN [kind |-> "AgentFinish", tool |-> <<>>, tool_input |-> <<>>,
              output |-> Strip(t, LastFinal(t) + 1, Len(t)), observation |-> "none"]
        ELSE [kind |-> "OutputParserException", tool |-> <<>>, tool_input |-> <<>>,
              output |-> <<>>, observation |-> "none"]

\* MRKLOutputParser.parse
Parse(t) ==
    IF HasFinalAnswer(t)
    THEN \* lines 16-19: text.split(FINAL_ANSWER_ACTION)[-1].strip()
         [kind |-> "AgentFinish", tool |-> <<>>, tool_input |-> <<>>,
          output |-> Strip(t, LastFinal(t) + 1, Len(t)), observation |-> "none"]
    ELSE LET m == RegexSearch(t, 1)
         IN  IF m.i = 0
             THEN \* lines 25-44
                  [kind |-> "OutputParserException", tool |-> <<>>,
                   tool_input |-> <<>>, output |-> <<>>,
                   observation |->
                       IF ~SearchAction(t, 1) THEN "Missing Action"
                       ELSE IF FirstActionInput(t, 1) = 0 THEN "Missing Action Input"
                       ELSE "none"]
             ELSE \* lines 45-53
                  [kind |-> "AgentAction",
                   tool |-> Strip(t, m.e1, m.j - 1),
                   tool_input |-> Strip(t, m.e2, Len(t)),
                   output |-> <<>>, observation |-> "none"]

InitParser ==
    /\ text = <<>>
    /\ parsed = NoResult

IdleParser ==
    /\ text = <<>>
    /\ parsed = NoResult

\* The call parse(t) on the LLM's completion t; parse is a pure function,
\* so one call per run shows all it can do.
ParseText(t) ==
    /\ piece = "parser"
    /\ parsed.kind = "none"
    /\ text' = t
    /\ parsed' = Parse(t)
    /\ UNCHANGED notParser

\* The agent hands parse one completion.
ParseCompletion ==
    /\ parsed.kind = "none"
    /\ \E t \in Texts : ParseText(t)

NextParser == ParseCompletion

----------------------------------------------------------------------------
(* NebulaGraph.query : src/langchain/graphs/nebula_graph.py                *)

RETRY_TIMES == 3

\* Bound: top-level query calls in one run.
MaxQueries == 2

\* What session_pool.execute_parameter can do.
ConnectionErrors == {"TTransportException", "IOErrorException"}

\* Faulty variant: the retry test admits one more round.
MayRetryInclusive(retry) == retry <= RETRY_TIMES

\* `if retry < RETRY_TIMES` of lines 127 and 143.
MayRetry(retry) == retry < RETRY_TIMES

InitNebula ==
    /\ neb_status = "idle"
    /\ neb_retry = 0
    /\ neb_log = <<>>
    /\ neb_pools = 0
    /\ neb_calls = 0

IdleNebula ==
    /\ neb_status = "idle"
    /\ neb_retry = 0
    /\ neb_log = <<>>
    /\ neb_pools = 0
    /\ neb_calls = 0

\* A caller enters query(query, params) with the default retry = 0.
NebulaQuery ==
    /\ piece = "nebula"
    /\ neb_status \in {"idle", "returned", "returned_None", "ValueError"}
    /\ neb_calls < MaxQueries
    /\ neb_status' = "running"
    /\ neb_retry' = 0
    /\ neb_log' = <<>>
    /\ neb_calls' = neb_calls + 1
    /\ UNCHANGED neb_pools
    /\ UNCHANGED notNebula

\* Line 113: execute_parameter succeeds; every frame returns its result.
NebulaExecuteOk ==
    /\ piece = "nebula"
    /\ neb_status = "running"
    /\ neb_log' = Append(neb_log, "ok")
    /\ neb_status' = "returned"
    /\ UNCHANGED <<neb_retry, neb_pools, neb_calls>>
    /\ UNCHANGED notNebula

\* Lines 114-124: NoValidSessionException becomes ValueError.
NebulaNoValidSession ==
    /\ piece = "nebula"
    /\ neb_status = "running"
    /\ neb_log' = Append(neb_log, "NoValidSessionException")
    /\ neb_status' = "ValueError"
    /\ UNCHANGED <<neb_retry, neb_pools, neb_calls>>
    /\ UNCHANGED notNebula

\* Lines 126-139: RuntimeError is retried, then becomes ValueError.
NebulaRuntimeError ==
    /\ piece = "nebula"
    /\ neb_status = "running"
    /\ neb_log' = Append(neb_log, "RuntimeError")
    /\ IF MayRetry(neb_retry)
       THEN /\ neb_retry' = neb_retry + 1
            /\ neb_status' = "running"
       ELSE /\ neb_retry' = neb_retry
            /\ neb_status' = "ValueError"
    /\ UNCHANGED <<neb_pools, neb_calls>>
    /\ UNCHANGED notNebula

\* Lines 141-150: a connection error recreates the session pool and retries;
\* _get_session_pool itself ends in a pool or in ValueError (lines 72-93).
\* With the retries used up the except block ends and the frame returns None.
NebulaConnectionError(exc, pool_ok) ==
    /\ piece = "nebula"
    /\ neb_status = "running"
    /\ neb_log' = Append(neb_log, exc)
    /\ IF MayRetry(neb_retry)
       THEN /\ neb_retry' = neb_retry + 1
            /\ IF pool_ok
               THEN neb_pools' = neb_pools + 1 /\ neb_status' = "running"
               ELSE neb_pools' = neb_pools /\ neb_status' = "ValueError"
       ELSE /\ neb_retry' = neb_retry
            /\ neb_pools' = neb_pools
            /\ neb_status' = "returned_None"
    /\ UNCHANGED neb_calls
    /\ UNCHANGED notNebula

NextNebula ==
    \/ NebulaQuery
    \/ NebulaExecuteOk
    \/ NebulaNoValidSession
    \/ NebulaRuntimeError
    \/ \E exc \in ConnectionErrors, pool_ok \in BOOLEAN : NebulaConnectionError(exc, pool_ok)

----------------------------------------------------------------------------
(* RouterRunnable.batch / abatch :                                         *)
(*   src/libs/langchain/langchain/schema/runnable/router.py                *)

\* Bounds: inputs in one batch, and the largest max_concurrency.
MaxBatch == 3
MaxConc == 2

\* self.runnables: "a" always succeeds, "b" raises on the input "bad".
RunnableKeys == {"a", "b"}

\* The RouterInputs a caller may pass; "zz" has no runnable.
RouterInputs == {[key |-> "a", input |-> "x"], [key |-> "b", input |-> "x"],
                 [key |-> "b", input |-> "bad"], [key |-> "zz", input |-> "x"]}

Batches == UNION {[1..n -> RouterInputs] : n \in 0..MaxBatch}

Configs == {[limited |-> FALSE, n |-> 0]} \cup {[limited |-> TRUE, n |-> n] : n \in 1..MaxConc}

NoOutput == [ok |-> TRUE, by |-> "none", of |-> "none"]

\* runnable.invoke / runnable.ainvoke of the runnable registered under key:
\* its output, or the exception it raises (ok = FALSE).
Invoke(key, input) ==
    [ok |-> ~(key = "b" /\ input = "bad"), by |-> key, of |-> input]

\* Faulty variant: every call goes to the runnable of the first input.
RunnableForFirstKey(inputs, i) == inputs[1].key

\* Lines 119/135 and 154/170: keys[i], and runnables[i] = self.runnables[keys[i]].
RunnableFor(inputs, i) == inputs[i].key

\* Lines 120 and 155: actual_inputs[i].
ActualInput(inputs, i) == inputs[i].input

\* Lines 121 and 156: any(key not in self.runnables for key in keys)
HasUnknownKey(inputs) == \E i \in DOMAIN inputs : inputs[i].key \notin RunnableKeys

\* Faulty variant: abatch gathers without a limit.
ConcurrencyLimitNone(config) == [limited |-> FALSE, n |-> 0]

\* get_config_list(config, n): one config per input, here n copies of the
\* single config the caller gave.
ConfigList(config, n) == [i \in 1..n |-> config]

\* Lines 137 and 173: configs[0].get("max_concurrency") of
\* configs = get_config_list(config, len(inputs)).
ConcurrencyLimit(config) ==
    LET configs == ConfigList(config, Len(rt_inputs))
    IN  [limited |-> configs[1].limited, n |-> configs[1].n]

\* gather_with_concurrency(n, ...) and the executor of
\* get_executor_for_config: with n = None every call may run, otherwise a
\* call starts only while fewer than n are in progress.
MayStart(limit, running) == ~limit.limited \/ running < limit.n

Running == {i \in DOMAIN rt_task : rt_task[i] = "running"}

InitRouter ==
    /\ rt_status = "idle"
    /\ rt_mode = "batch"
    /\ rt_inputs = <<>>
    /\ rt_rexc = FALSE
    /\ rt_config = [limited |-> FALSE, n |-> 0]
    /\ rt_task = <<>>
    /\ rt_slot = <<>>
    /\ rt_order = <<>>
    /\ rt_result = <<>>

IdleRouter ==
    /\ rt_status = "idle"
    /\ rt_mode = "batch"
    /\ rt_inputs = <<>>
    /\ rt_rexc = FALSE
    /\ rt_config = [limited |-> FALSE, n |-> 0]
    /\ rt_task = <<>>
    /\ rt_slot = <<>>
    /\ rt_order = <<>>
    /\ rt_result = <<>>

\* Entry of batch / abatch up to the fan-out (lines 116-136, 151-171).
RouterStart(mode, inputs, rexc, config) ==
    /\ piece = "router"
    /\ rt_status = "idle"
    /\ rt_mode' = mode
    /\ rt_inputs' = inputs
    /\ rt_rexc' = rexc
    /\ rt_config' = config
    /\ rt_order' = <<>>
    /\ rt_result' = <<>>
    /\ IF Len(inputs) = 0
       THEN \* `if not inputs: return []`
            /\ rt_status' = "returned"
            /\ rt_task' = <<>>
            /\ rt_slot' = <<>>
       ELSE IF HasUnknownKey(inputs)
       THEN /\ rt_status' = "raised"
            /\ rt_task' = <<>>
            /\ rt_slot' = <<>>
       ELSE /\ rt_status' = "running"
            /\ rt_task' = [i \in DOMAIN inputs |-> "pending"]
            /\ rt_slot' = [i \in DOMAIN inputs |-> NoOutput]
    /\ UNCHANGED notRouter

\* The call for position i begins: a worker thread picks it up, or its
\* coroutine passes the semaphore.  Calls already scheduled keep running
\* after abatch has raised.
RouterTaskStart(i) ==
    /\ piece = "router"
    /\ rt_status \in {"running", "raised"}
    /\ i \in DOMAIN rt_task
    /\ rt_task[i] = "pending"
    /\ MayStart(ConcurrencyLimit(rt_config), Cardinality(Running))
    /\ rt_task' = [rt_task EXCEPT ![i] = "running"]
    /\ UNCHANGED <<rt_status, rt_mode, rt_inputs, rt_rexc, rt_config, rt_slot,
                   rt_order, rt_result>>
    /\ UNCHANGED notRouter

\* The call for position i ends (the inner invoke / ainvoke, lines 124-133
\* and 159-168).  In abatch an exception that is not to be returned leaves
\* the gather at once.
RouterTaskFinish(i) ==
    /\ piece = "router"
    /\ rt_status \in {"running", "raised"}
    /\ i \in DOMAIN rt_task
    /\ rt_task[i] = "running"
    /\ LET out == Invoke(RunnableFor(rt_inputs, i), ActualInput(rt_inputs, i))
       IN  /\ rt_task' = [rt_task EXCEPT ![i] = "done"]
           /\ rt_slot' = [rt_slot EXCEPT ![i] = out]
           /\ rt_order' = Append(rt_order, i)
           /\ rt_status' = IF rt_mode = "abatch" /\ ~out.ok /\ ~rt_rexc
                           THEN "raised" ELSE rt_status
    /\ UNCHANGED <<rt_mode, rt_inputs, rt_rexc, rt_config, rt_result>>
    /\ UNCHANGED notRouter

\* All calls are done: list(executor.map(...)) / the gather hands back the
\* outputs by position; batch raises here if a call raised and exceptions
\* are not returned.
RouterCollect ==
    /\ piece = "router"
    /\ rt_status = "running"
    /\ \A i \in DOMAIN rt_task : rt_task[i] = "done"
    /\ IF \E i \in DOMAIN rt_slot : ~rt_slot[i].ok /\ ~rt_rexc
       THEN rt_status' = "raised" /\ rt_result' = <<>>
       ELSE rt_status' = "returned" /\ rt_result' = rt_slot
    /\ UNCHANGED <<rt_mode, rt_inputs, rt_rexc, rt_config, rt_task, rt_slot, rt_order>>
    /\ UNCHANGED notRouter

\* A caller calls batch or abatch.
RouterCall ==
    /\ rt_status = "idle"
    /\ \E mode \in {"batch", "abatch"}, inputs \in Batches, rexc \in BOOLEAN,
          config \in Configs : RouterStart(mode, inputs, rexc, config)

NextRouter ==
    \/ RouterCall
    \/ \E i \in 1..MaxBatch : RouterTaskStart(i)
    \/ \E i \in 1..MaxBatch : RouterTaskFinish(i)
    \/ RouterCollect

----------------------------------------------------------------------------
(* ConversationTokenBufferMemory.save_context :                            *)
(*   src/libs/langchain/langchain/memory/token_buffer.py                   *)

\* Bounds: tokens in one message, and save_context calls in one run.
MaxMsgTokens == 3
MaxSaves == 3

\* max_token_limit values tried, and what the llm counts for no messages.
TokenLimits == {0, 2, 5}
Overheads == {0, 1}

RECURSIVE SumSeq(_)
SumSeq(q) == IF q = <<>> THEN 0 ELSE Head(q) + SumSeq(Tail(q))

\* llm.get_num_tokens_from_messages(buffer)
NumTokens(buffer, overhead) == overhead + SumSeq(buffer)

\* BaseChatMemory.save_context: the human and the ai message are appended.
AddExchange(buffer, human, ai) == buffer \o <<human, ai>>

\* Faulty variant: `if` instead of `while`: one message is dropped at most.
PruneOnce(buffer, limit, overhead) ==
    IF NumTokens(buffer, overhead) > limit
    THEN IF buffer = <<>>
         THEN [buffer |-> buffer, status |-> "IndexError"]
         ELSE [buffer |-> Tail(buffer), status |-> "returned"]
    ELSE [buffer |-> buffer, status |-> "returned"]

\* Lines 52-58: while over the limit, buffer.pop(0); pop on an empty list
\* raises IndexError.
RECURSIVE Prune(_, _, _)
Prune(buffer, limit, overhead) ==
    IF NumTokens(buffer, overhead) > limit
    THEN IF buffer = <<>>
         THEN [buffer |-> buffer, status |-> "IndexError"]
         ELSE Prune(Tail(buffer), limit, overhead)
    ELSE [buffer |-> buffer, status |-> "returned"]

InitBuffer ==
    /\ tb_limit \in TokenLimits
    /\ tb_overhead \in Overheads
    /\ tb_buffer = <<>>
    /\ tb_status = "idle"
    /\ tb_added = <<>>
    /\ tb_saves = 0

IdleBuffer ==
    /\ tb_limit = 0
    /\ tb_overhead = 0
    /\ tb_buffer = <<>>
    /\ tb_status = "idle"
    /\ tb_added = <<>>
    /\ tb_saves = 0

\* One whole save_context(inputs, outputs); human and ai are the token
\* sizes of the two messages it stores.
SaveContextPruned(human, ai) ==
    /\ piece = "buffer"
    /\ tb_saves < MaxSaves
    /\ LET r == Prune(AddExchange(tb_buffer, human, ai), tb_limit, tb_overhead)
       IN  /\ tb_buffer' = r.buffer
           /\ tb_status' = r.status
    /\ tb_added' = <<human, ai>>
    /\ tb_saves' = tb_saves + 1
    /\ UNCHANGED <<tb_limit, tb_overhead>>
    /\ UNCHANGED notBuffer

NextBuffer ==
    \E human \in 1..MaxMsgTokens, ai \in 1..MaxMsgTokens : SaveContextPruned(human, ai)

----------------------------------------------------------------------------
(* RecursiveUrlLoader :                                                    *)
(*   src/libs/langchain/langchain/document_loaders/recursive_url_loader.py *)
(*                                                                         *)
(* A URL is [host, path], path a sequence of segments; the loader's url is *)
(* a directory URL (it ends with "/"), so that str.startswith on URLs is   *)
(* the prefix test on segments.  An href in a page is one of               *)
(*   "abs"   http(s)://host/path        "proto"   //host/path              *)
(*   "rel"   a relative reference; a first segment "/" makes it            *)
(*           host-relative and ".." climbs one directory.                  *)
(* Every page of the site has non-empty text; a URL outside the site makes *)
(* requests.get / aiohttp raise.  The server answers url and url + "/"     *)
(* with the same page.                                                     *)

MaxDepth == 2
MaxLinks == 2

Url(h, p) == [host |-> h, path |-> p]
RootUrl == Url("a", <<"docs">>)
P1 == Url("a", <<"docs", "p1">>)
P2 == Url("a", <<"docs", "p2">>)
X3 == Url("a", <<"docs", "x", "p3">>)
Blog == Url("a", <<"blog">>)
Ev == Url("b", <<"ev">>)
Dead == Url("a", <<"docs", "dead">>)
XDir == Url("a", <<"docs", "x">>)

Abs(u) == [kind |-> "abs", host |-> u.host, path |-> u.path]
ProtoRel(u) == [kind |-> "proto", host |-> u.host, path |-> u.path]
Rel(p) == [kind |-> "rel", host |-> "", path |-> p]

\* hrefs a page may hold
Hrefs == {Abs(P1), Rel(<<"p2">>), Abs(X3), ProtoRel(Ev), Rel(<<"/", "blog">>),
          Abs(Ev)}
RootLinkSets == {s \in SUBSET Hrefs : Cardinality(s) <= MaxLinks}
P1LinkSets == {{}, {Abs(P2)}, {Abs(RootUrl)}, {Rel(<<"x", "p3">>)},
               {Rel(<<"..", "blog">>)}, {Abs(Dead)}}

\* the sites: the hrefs of each existing page
Sites == {[u \in {RootUrl, P1, P2, X3, Blog, Ev} |->
             CASE u = RootUrl -> r
               [] u = P1 -> p
               [] u = P2 -> {Abs(X3), Abs(P1)}
               [] u = X3 -> {Abs(P2)}
               [] OTHER -> {}] : r \in RootLinkSets, p \in P1LinkSets}
ExcludeDirs == {{}, {XDir}}

\* str.startswith on two URLs
StartsWith(u, d) ==
    /\ u.host = d.host
    /\ Len(d.path) <= Len(u.path)
    /\ SubSeq(u.path, 1, Len(d.path)) = d.path

\* urllib.parse.urljoin(base_url, link) for a directory base_url
RECURSIVE JoinPath(_, _)
JoinPath(acc, segs) ==
    IF segs = <<>> THEN acc
    ELSE IF Head(segs) = "/" THEN JoinPath(<<>>, Tail(segs))
    ELSE IF Head(segs) = ".."
         THEN JoinPath(IF acc = <<>> THEN acc ELSE SubSeq(acc, 1, Len(acc) - 1),
                       Tail(segs))
    ELSE JoinPath(Append(acc, Head(segs)), Tail(segs))
UrlJoin(base, link) == Url(base.host, JoinPath(base.path, link.path))

\* _get_sub_links, lines 58-89
GetSubLinks(raw_html, base_url, prevent_outside) ==
    {Url(l.host, l.path) : l \in {k \in raw_html :
        /\ k.kind = "abs"
        /\ (~prevent_outside \/ StartsWith(Url(k.host, k.path), base_url))}}
    \cup {Url(l.host, l.path) : l \in {k \in raw_html : k.kind = "proto"}}
    \cup {UrlJoin(base_url, l) : l \in {k \in raw_html : k.kind = "rel"}}

\* Faulty variant: a call at depth max_depth still fetches
DepthReachedOffByOne(depth, max_depth) == depth > max_depth

\* line 150: if depth >= self.max_depth: return
DepthReached(depth, max_depth) == depth >= max_depth

\* line 201: if depth > self.max_depth: return []
AsyncDepthReached(depth, max_depth) == depth > max_depth

\* lines 153 and 212: any(url.startswith(exclude_dir) ...)
Excluded(u, exclude_dirs) == \E d \in exclude_dirs : StartsWith(u, d)

Frame(u, d) == [url |-> u, depth |-> d]

InitLoader ==
    /\ ld_site \in Sites
    /\ ld_max_depth \in 0..MaxDepth
    /\ ld_exclude \in ExcludeDirs
    /\ ld_prevent \in BOOLEAN
    /\ ld_phase = "idle"
    /\ ld_stack = <<>>
    /\ ld_visited = {}
    /\ ld_sync_docs = {}
    /\ ld_sync_fetched = {}
    /\ ld_frames = {}
    /\ ld_async_docs = {}
    /\ ld_async_fetched = {}

IdleLoader ==
    /\ ld_site = <<>>
    /\ ld_max_depth = 0
    /\ ld_exclude = {}
    /\ ld_prevent = TRUE
    /\ ld_phase = "idle"
    /\ ld_stack = <<>>
    /\ ld_visited = {}
    /\ ld_sync_docs = {}
    /\ ld_sync_fetched = {}
    /\ ld_frames = {}
    /\ ld_async_docs = {}
    /\ ld_async_fetched = {}

loaderSettings == <<ld_site, ld_max_depth, ld_exclude, ld_prevent>>
loaderAsync == <<ld_frames, ld_async_docs, ld_async_fetched>>
loaderSync == <<ld_stack, ld_sync_docs, ld_sync_fetched>>

\* load() with use_async=False: lazy_load starts
\* _get_child_links_recursive(self.url, visited), lines 289-300
SyncLoad ==
    /\ piece = "loader"
    /\ ld_phase = "idle"
    /\ ld_phase' = "sync"
    /\ ld_stack' = <<[url |-> RootUrl, depth |-> 0, pending |-> {}, entered |-> FALSE]>>
    /\ ld_visited' = {}
    /\ UNCHANGED <<loaderSettings, ld_sync_docs, ld_sync_fetched, loaderAsync, notLoader>>

\* _get_child_links_recursive up to its loop, lines 150-176: the innermost
\* call returns at once, or fetches its url, yields the Document, marks the
\* url visited and extracts the sub links
SyncEnter ==
    /\ piece = "loader"
    /\ ld_phase = "sync"
    /\ ld_stack # <<>>
    /\ LET n == Len(ld_stack)
           f == ld_stack[n]
       IN /\ ~f.entered
          /\ IF \/ DepthReached(f.depth, ld_max_depth)
                \/ Excluded(f.url, ld_exclude)
             THEN /\ ld_stack' = SubSeq(ld_stack, 1, n - 1)
                  /\ UNCHANGED <<ld_visited, ld_sync_docs, ld_sync_fetched>>
             ELSE /\ ld_sync_fetched' = ld_sync_fetched \cup {Frame(f.url, f.depth)}
                  /\ IF f.url \notin DOMAIN ld_site
                     THEN /\ ld_stack' = SubSeq(ld_stack, 1, n - 1)
                          /\ UNCHANGED <<ld_visited, ld_sync_docs>>
                     ELSE /\ ld_sync_docs' = ld_sync_docs \cup {f.url}
                          /\ ld_visited' = ld_visited \cup {f.url}
                          /\ ld_stack' = [ld_stack EXCEPT ![n] =
                                 [f EXCEPT !.entered = TRUE,
                                           !.pending = GetSubLinks(ld_site[f.url],
                                                           RootUrl, ld_prevent)]]
    /\ UNCHANGED <<ld_phase, loaderSettings, loaderAsync, notLoader>>

\* one turn of the loop of lines 177-182: sub_links is list(set(...)), so
\* the links come in any order
SyncNextLink ==
    /\ piece = "loader"
    /\ ld_phase = "sync"
    /\ ld_stack # <<>>
    /\ LET n == Len(ld_stack)
           f == ld_stack[n]
       IN /\ f.entered
          /\ \E link \in f.pending :
               LET rest == [ld_stack EXCEPT ![n].pending = f.pending \ {link}]
               IN ld_stack' = IF link \in ld_visited THEN rest
                              ELSE Append(rest, [url |-> link, depth |-> f.depth + 1,
                                                 pending |-> {}, entered |-> FALSE])
    /\ UNCHANGED <<ld_phase, ld_visited, ld_sync_docs, ld_sync_fetched,
                   loaderSettings, loaderAsync, notLoader>>

\* the loop of lines 177-182 is exhausted: the innermost call returns
SyncReturn ==
    /\ piece = "loader"
    /\ ld_phase = "sync"
    /\ ld_stack # <<>>
    /\ LET n == Len(ld_stack)
       IN /\ ld_stack[n].entered
          /\ ld_stack[n].pending = {}
          /\ ld_stack' = SubSeq(ld_stack, 1, n - 1)
    /\ UNCHANGED <<ld_phase, ld_visited, ld_sync_docs, ld_sync_fetched,
                   loaderSettings, loaderAsync, notLoader>>

\* load() with use_async=True on the same site and settings: lazy_load runs
\* _async_get_child_links_recursive(self.url), lines 289-297
AsyncLoad ==
    /\ piece = "loader"
    /\ ld_phase = "sync"
    /\ ld_stack = <<>>
    /\ ld_phase' = "async"
    /\ ld_frames' = {Frame(RootUrl, 0)}
    /\ ld_visited' = {}
    /\ UNCHANGED <<loaderSettings, loaderSync, ld_async_docs, ld_async_fetched, notLoader>>

\* one call of _async_get_child_links_recursive up to the gather of its
\* sub tasks, lines 201-277: the depth and exclude_dirs tests, the fetch of
\* url, the workers that fetch every sub link not yet visited and make its
\* Document, and one recursive call per sub link
AsyncCall(f) ==
    /\ IF \/ AsyncDepthReached(f.depth, ld_max_depth)
          \/ Excluded(f.url, ld_exclude)
       THEN /\ ld_frames' = ld_frames \ {f}
            /\ UNCHANGED <<ld_visited, ld_async_docs, ld_async_fetched>>
       ELSE IF f.url \notin DOMAIN ld_site
       THEN /\ ld_frames' = ld_frames \ {f}
            /\ ld_async_fetched' = ld_async_fetched \cup {f.url}
            /\ UNCHANGED <<ld_visited, ld_async_docs>>
       ELSE LET sub_links == GetSubLinks(ld_site[f.url], RootUrl, ld_prevent)
                to_fetch == sub_links \ ld_visited
            IN /\ ld_visited' = ld_visited \cup to_fetch
               /\ ld_async_fetched' = ld_async_fetched \cup {f.url} \cup to_fetch
               /\ ld_async_docs' = ld_async_docs \cup (to_fetch \cap DOMAIN ld_site)
               /\ ld_frames' = (ld_frames \ {f})
                                 \cup {Frame(l, f.depth + 1) : l \in sub_links}
    /\ UNCHANGED <<ld_phase, loaderSettings, loaderSync, notLoader>>

AsyncStep ==
    /\ piece = "loader"
    /\ ld_phase = "async"
    /\ \E f \in ld_frames : AsyncCall(f)

\* asyncio.run returns the flattened results, lines 278-297
AsyncReturn ==
    /\ piece = "loader"
    /\ ld_phase = "async"
    /\ ld_frames = {}
    /\ ld_phase' = "done"
    /\ UNCHANGED <<ld_visited, loaderSettings, loaderSync, loaderAsync, notLoader>>

NextLoader ==
    \/ SyncLoad
    \/ SyncEnter
    \/ SyncNextLink
    \/ SyncReturn
    \/ AsyncLoad
    \/ AsyncStep
    \/ AsyncReturn

----------------------------------------------------------------------------
(* SQLChatMessageHistory :                                                 *)
(*   src/libs/community/langchain_community/chat_message_histories/sql.py  *)
(*                                                                         *)
(* Several histories, one per session_id, share one table.  A row is       *)
(* [id, session_id, message] and carries the number of the call that       *)
(* added it.  session.add only registers a row with the session's unit of  *)
(* work; session.commit writes the registered rows in one transaction, the *)
(* primary key growing from the largest one in the table; leaving the      *)
(* `with` block on an exception closes the session and drops the rows not  *)
(* committed.  Other sessions read committed rows only.                    *)

MaxCalls == 2
MaxBatchLen == 2

SessionIds == {"s1", "s2"}
ChatMessages == {[type |-> "human", content |-> "q"], [type |-> "ai", content |-> "a"]}
MessageBatches == UNION {[1..n -> ChatMessages] : n \in 0..MaxBatchLen}

\* json.dumps(message_to_dict(message)), line 89
MessageToJson(message) == <<"type", message.type, "content", message.content>>

\* messages_from_dict([json.loads(...)])[0], line 85
MessageFromJson(js) == [type |-> js[2], content |-> js[4]]

\* DefaultMessageConverter.to_sql_model, lines 87-90
ToSqlModel(message, session_id, call) ==
    [session_id |-> session_id, message |-> MessageToJson(message), call |-> call]

\* DefaultMessageConverter.from_sql_model, lines 84-85
FromSqlModel(record) == MessageFromJson(record.message)

MaxId(table) ==
    IF table = {} THEN 0
    ELSE CHOOSE i \in {r.id : r \in table} : \A r \in table : r.id <= i

\* session.commit(): the registered rows get the next primary keys, in the
\* order of their registration, and become visible together
Commit(table, pending) ==
    table \cup {[id |-> MaxId(table) + i,
                 session_id |-> pending[i].session_id,
                 message |-> pending[i].message,
                 call |-> pending[i].call] : i \in 1..Len(pending)}

\* .order_by(self.sql_model_class.id.asc()), lines 187 and 205
RECURSIVE OrderById(_)
OrderById(rows) ==
    IF rows = {} THEN <<>>
    ELSE LET first == CHOOSE r \in rows : \A q \in rows : r.id <= q.id
         IN <<first>> \o OrderById(rows \ {first})

\* the query of lines 181-188 and 199-207
SelectSession(table, session_id) ==
    OrderById({r \in table : r.session_id = session_id})

\* Faulty variant: the query without its where clause
MessagesOfAllSessions(table, session_id) ==
    LET records == OrderById(table)
    IN [i \in 1..Len(records) |-> FromSqlModel(records[i])]

\* the messages property, lines 176-192 (aget_messages, lines 194-211)
Messages(table, session_id) ==
    LET records == SelectSession(table, session_id)
    IN [i \in 1..Len(records) |-> FromSqlModel(records[i])]

\* Faulty variant: every message is committed as soon as it is added
AddAndCommit(db, row) ==
    [table |-> Commit(db.table, <<row>>), pending |-> db.pending]

\* session.add(...) inside the loop of add_messages, lines 240-241 and 249-250
SessionAdd(db, row) ==
    [table |-> db.table, pending |-> Append(db.pending, row)]

NoBatch == [status |-> "none", session_id |-> "", messages |-> <<>>,
            pending |-> <<>>, call |-> 0]
NoRead == [session_id |-> "", result |-> <<>>, records |-> <<>>]

InitSql ==
    /\ sq_async \in BOOLEAN
    /\ sq_table = {}
    /\ sq_batch = NoBatch
    /\ sq_expected = [s \in SessionIds |-> <<>>]
    /\ sq_read = NoRead
    /\ sq_calls = 0

IdleSql ==
    /\ sq_async = FALSE
    /\ sq_table = {}
    /\ sq_batch = NoBatch
    /\ sq_expected = <<>>
    /\ sq_read = NoRead
    /\ sq_calls = 0

\* add_message / aadd_message, lines 213-229
AddMessage(session_id, message) ==
    /\ sq_calls' = sq_calls + 1
    /\ sq_table' = Commit(sq_table, <<ToSqlModel(message, session_id, sq_calls + 1)>>)
    /\ sq_expected' = [sq_expected EXCEPT ![session_id] = Append(@, message)]
    /\ sq_read' = NoRead
    /\ UNCHANGED <<sq_async, sq_batch, notSql>>

AddMessageCall ==
    /\ piece = "sql"
    /\ sq_calls < MaxCalls
    /\ \E session_id \in SessionIds, message \in ChatMessages :
          AddMessage(session_id, message)

\* add_messages / aadd_messages opens its session, lines 239 and 248
AddMessages(session_id, messages) ==
    /\ sq_calls' = sq_calls + 1
    /\ sq_batch' = [status |-> "open", session_id |-> session_id,
                    messages |-> messages, pending |-> <<>>,
                    call |-> sq_calls + 1]
    /\ sq_read' = NoRead
    /\ UNCHANGED <<sq_async, sq_table, sq_expected, notSql>>

AddMessagesCall ==
    /\ piece = "sql"
    /\ sq_calls < MaxCalls
    /\ sq_batch.status # "open"
    /\ \E session_id \in SessionIds, messages \in MessageBatches :
          AddMessages(session_id, messages)

\* one turn of the loop of lines 240-241 and 249-250
AddMessagesAdd ==
    /\ piece = "sql"
    /\ sq_batch.status = "open"
    /\ Len(sq_batch.pending) < Len(sq_batch.messages)
    /\ LET message == sq_batch.messages[Len(sq_batch.pending) + 1]
           db == SessionAdd([table |-> sq_table, pending |-> sq_batch.pending],
                     ToSqlModel(message, sq_batch.session_id, sq_batch.call))
       IN /\ sq_table' = db.table
          /\ sq_batch' = [sq_batch EXCEPT !.pending = db.pending]
    /\ sq_read' = NoRead
    /\ UNCHANGED <<sq_async, sq_expected, sq_calls, notSql>>

\* session.commit() after the loop, lines 242 and 251
AddMessagesCommit ==
    /\ piece = "sql"
    /\ sq_batch.status = "open"
    /\ Len(sq_batch.pending) = Len(sq_batch.messages)
    /\ sq_table' = Commit(sq_table, sq_batch.pending)
    /\ sq_batch' = [sq_batch EXCEPT !.status = "committed", !.pending = <<>>]
    /\ sq_expected' = [sq_expected EXCEPT ![sq_batch.session_id] =
                          @ \o sq_batch.messages]
    /\ sq_read' = NoRead
    /\ UNCHANGED <<sq_async, sq_calls, notSql>>

\* to_sql_model or commit raises: the `with` block of lines 239 and 248
\* closes the session
AddMessagesFail ==
    /\ piece = "sql"
    /\ sq_batch.status = "open"
    /\ sq_batch' = [sq_batch EXCEPT !.status = "failed", !.pending = <<>>]
    /\ sq_read' = NoRead
    /\ UNCHANGED <<sq_async, sq_table, sq_expected, sq_calls, notSql>>

\* clear / aclear, lines 253-275
Clear(session_id) ==
    /\ sq_table' = {r \in sq_table : r.session_id # session_id}
    /\ sq_expected' = [sq_expected EXCEPT ![session_id] = <<>>]
    /\ sq_read' = NoRead
    /\ UNCHANGED <<sq_async, sq_batch, sq_calls, notSql>>

ClearCall ==
    /\ piece = "sql"
    /\ \E session_id \in SessionIds :
          /\ sq_expected[session_id] # <<>> \/ sq_batch.status = "open"
          /\ Clear(session_id)

\* the messages property / aget_messages read by any history, also while
\* another one is inside add_messages
GetMessages(session_id) ==
    /\ sq_read' = [session_id |-> session_id,
                   result |-> Messages(sq_table, session_id),
                   records |-> SelectSession(sq_table, session_id)]
    /\ UNCHANGED <<sq_async, sq_table, sq_batch, sq_expected, sq_calls, notSql>>

GetMessagesCall ==
    /\ piece = "sql"
    /\ sq_read = NoRead
    /\ \E session_id \in SessionIds : GetMessages(session_id)

NextSql ==
    \/ AddMessageCall
    \/ AddMessagesCall
    \/ AddMessagesAdd
    \/ AddMessagesCommit
    \/ AddMessagesFail
    \/ ClearCall
    \/ GetMessagesCall

----------------------------------------------------------------------------
(* _unique_documents, as exercised by                                      *)
(*   src/libs/langchain/tests/unit_tests/retrievers/test_multi_query.py    *)
(* over the Documents of src/libs/core/langchain_core/documents/base.py    *)
(*                                                                         *)
(* A metadata dictionary is empty or holds the one key "bar"; its value is *)
(* a string, a list or a set, written [kind, items] with the items of a    *)
(* list in list order and the items of a set in ascending order (a Python  *)
(* set has no order of its own).  Numbers are written as numerals.  Every  *)
(* Document is built as in the test, with parent left at None.             *)

MaxDocs == 3

PageContents == {"foo", "qux"}
EmptyMetadata == [kind |-> "empty", items |-> <<>>]
BarStr == [kind |-> "str", items |-> <<"baz">>]
BarList12 == [kind |-> "list", items |-> <<"1", "2">>]
BarList21 == [kind |-> "list", items |-> <<"2", "1">>]
BarSet12 == [kind |-> "set", items |-> <<"1", "2">>]
Metadatas == {EmptyMetadata, BarStr, BarList12, BarList21, BarSet12}

\* Document(page_content=..., metadata=...), base.py lines 9-23
Document(page_content, metadata) ==
    [page_content |-> page_content, metadata |-> metadata, parent |-> "None"]
Documents == {Document(c, m) : c \in PageContents, m \in Metadatas}
DocumentLists == UNION {[1..n -> Documents] : n \in 0..MaxDocs}

\* Faulty variant: lists are compared without regard to the order of their items
MetadataEqAnyOrder(a, b) == a.kind = b.kind /\ Range(a.items) = Range(b.items)

\* == on two metadata dictionaries: lists are equal item by item
MetadataEq(a, b) == a.kind = b.kind /\ a.items = b.items

\* == on two Documents: field by field
DocumentEq(a, b) ==
    /\ a.page_content = b.page_content
    /\ MetadataEq(a.metadata, b.metadata)
    /\ a.parent = b.parent

\* the documents that equal no earlier one, in their order
RECURSIVE UniqueFrom(_, _)
UniqueFrom(documents, i) ==
    IF i > Len(documents) THEN <<>>
    ELSE IF \E j \in 1..(i - 1) : DocumentEq(documents[j], documents[i])
         THEN UniqueFrom(documents, i + 1)
         ELSE <<documents[i]>> \o UniqueFrom(documents, i + 1)

UniqueDocuments(documents) == UniqueFrom(documents, 1)

\* the parametrized cases of test__unique_documents: <<documents, expected>>
TestCases ==
    {<<<<>>, <<>>>>,
     <<<<Document("foo", EmptyMetadata)>>, <<Document("foo", EmptyMetadata)>>>>,
     <<<<Document("foo", EmptyMetadata), Document("foo", EmptyMetadata)>>,
       <<Document("foo", EmptyMetadata)>>>>,
     <<<<Document("foo", BarStr), Document("foo", BarStr)>>,
       <<Document("foo", BarStr)>>>>,
     <<<<Document("foo", BarList12), Document("foo", BarList12)>>,
       <<Document("foo", BarList12)>>>>,
     <<<<Document("foo", BarSet12), Document("foo", BarSet12)>>,
       <<Document("foo", BarSet12)>>>>,
     <<<<Document("foo", BarList12), Document("foo", BarList21)>>,
       <<Document("foo", BarList12), Document("foo", BarList21)>>>>}

InitUnique ==
    /\ ud_documents \in DocumentLists
    /\ ud_status = "idle"
    /\ ud_result = <<>>
    /\ ud_again = <<>>

IdleUnique ==
    /\ ud_documents = <<>>
    /\ ud_status = "idle"
    /\ ud_result = <<>>
    /\ ud_again = <<>>

\* _unique_documents(documents), test line 40
UniqueCall ==
    /\ piece = "unique"
    /\ ud_status = "idle"
    /\ ud_result' = UniqueDocuments(ud_documents)
    /\ ud_status' = "returned"
    /\ UNCHANGED <<ud_documents, ud_again, notUnique>>

\* the function applied to its own result
UniqueCallAgain ==
    /\ piece = "unique"
    /\ ud_status = "returned"
    /\ ud_again' = UniqueDocuments(ud_result)
    /\ ud_status' = "returned_twice"
    /\ UNCHANGED <<ud_documents, ud_result, notUnique>>

NextUnique ==
    \/ UniqueCall
    \/ UniqueCallAgain

----------------------------------------------------------------------------
(* Specifications: one per piece, the other pieces idle *)

ChainInit == piece = "chain" /\ InitChain /\ IdleParser /\ IdleNebula /\ IdleRouter /\ IdleBuffer /\ IdleLoader /\ IdleSql /\ IdleUnique
SpecChain == ChainInit /\ [][NextChain]_vars

ParserInit == piece = "parser" /\ IdleChain /\ InitParser /\ IdleNebula /\ IdleRouter /\ IdleBuffer /\ IdleLoader /\ IdleSql /\ IdleUnique
SpecParser == ParserInit /\ [][NextParser]_vars

NebulaInit == piece = "nebula" /\ IdleChain /\ IdleParser /\ InitNebula /\ IdleRouter /\ IdleBuffer /\ IdleLoader /\ IdleSql /\ IdleUnique
SpecNebula == NebulaInit /\ [][NextNebula]_vars

RouterInit == piece = "router" /\ IdleChain /\ IdleParser /\ IdleNebula /\ InitRouter /\ IdleBuffer /\ IdleLoader /\ IdleSql /\ IdleUnique
SpecRouter == RouterInit /\ [][NextRouter]_vars

BufferInit == piece = "buffer" /\ IdleChain /\ IdleParser /\ IdleNebula /\ IdleRouter /\ InitBuffer /\ IdleLoader /\ IdleSql /\ IdleUnique
SpecBuffer == BufferInit /\ [][NextBuffer]_vars

LoaderInit == piece = "loader" /\ IdleChain /\ IdleParser /\ IdleNebula /\ IdleRouter /\ IdleBuffer /\ InitLoader /\ IdleSql /\ IdleUnique
SpecLoader == LoaderInit /\ [][NextLoader]_vars

SqlInit == piece = "sql" /\ IdleChain /\ IdleParser /\ IdleNebula /\ IdleRouter /\ IdleBuffer /\ IdleLoader /\ InitSql /\ IdleUnique
SpecSql == SqlInit /\ [][NextSql]_vars

UniqueInit == piece = "unique" /\ IdleChain /\ IdleParser /\ IdleNebula /\ IdleRouter /\ IdleBuffer /\ IdleLoader /\ IdleSql /\ InitUnique
SpecUnique == UniqueInit /\ [][NextUnique]_vars

\* The whole model: any one piece running.
Init == ChainInit \/ ParserInit \/ NebulaInit \/ RouterInit \/ BufferInit \/ LoaderInit \/ SqlInit \/ UniqueInit
Next == NextChain \/ NextParser \/ NextNebula \/ NextRouter \/ NextBuffer \/ NextLoader \/ NextSql \/ NextUnique
Spec == Init /\ [][Next]_vars

----------------------------------------------------------------------------
(* Properties of Chain.__call__ *)

\* C1: _call is invoked only if every declared input key is present in the
\* caller's inputs after the memory variables have been merged in; if a
\* declared key is still missing the call raises ValueError and neither _call
\* nor memory.save_context is executed.
C1_CallOnlyWithAllInputKeys ==
    (chain_status # "idle" /\ ~(chain_orig.kind = "single" /\ Len(input_keys) # 1)) =>
        LET merged == Merged(input_keys, chain_orig, has_memory, chain_mem_before)
        IN  /\ chain_called => Range(input_keys) \subseteq DOMAIN merged
            /\ ~(Range(input_keys) \subseteq DOMAIN merged) =>
                   /\ chain_status = "ValueError"
                   /\ ~chain_called
                   /\ ~chain_saved
                   /\ mem_store = chain_mem_before

\* C1 witness: a chain with memory whose declared key is missing even after
\* the merge has raised without calling _call.
C1_Witness ==
    /\ chain_status = "ValueError"
    /\ has_memory
    /\ chain_orig.kind = "dict"
    /\ ~chain_called
    /\ "q" \in Range(input_keys)
    /\ "q" \notin DOMAIN Merged(input_keys, chain_orig, has_memory, chain_mem_before)

\* C2: if the key set of _call's result differs from the declared output
\* keys, the call raises ValueError, save_context is not invoked and the
\* memory is as before the call; a result is returned only when the key
\* sets are equal.
C2_OutputKeysValidated ==
    /\ (chain_called /\ DOMAIN chain_outputs # Range(output_keys)) =>
           /\ chain_status = "ValueError"
           /\ ~chain_saved
           /\ mem_store = chain_mem_before
    /\ chain_status = "returned" =>
           /\ chain_called
           /\ DOMAIN chain_outputs = Range(output_keys)

\* C2 witness: a chain with memory whose _call produced an extra key raised.
C2_Witness ==
    /\ chain_called
    /\ has_memory
    /\ chain_status = "ValueError"
    /\ Range(output_keys) \subseteq DOMAIN chain_outputs
    /\ DOMAIN chain_outputs # Range(output_keys)

\* C3 (as claimed): with return_only_outputs=True the result is exactly
\* _call's dictionary; with False it holds every input key with the value
\* passed to _call and every output key with the value _call produced.
C3_Original ==
    chain_status = "returned" =>
        IF chain_ronly
        THEN chain_result = chain_outputs
        ELSE /\ \A k \in DOMAIN chain_inputs :
                    k \in DOMAIN chain_result /\ chain_result[k] = chain_inputs[k]
             /\ \A k \in DOMAIN chain_outputs :
                    k \in DOMAIN chain_result /\ chain_result[k] = chain_outputs[k]

\* C3 (amended): with return_only_outputs=True the result is exactly _call's
\* dictionary; with False its keys are the input keys and the output keys,
\* every output key has the value _call produced, and every input key that
\* is not also an output key has the value passed to _call.
C3_ReturnedDictionary ==
    chain_status = "returned" =>
        IF chain_ronly
        THEN chain_result = chain_outputs
        ELSE /\ DOMAIN chain_result = (DOMAIN chain_inputs) \cup (DOMAIN chain_outputs)
             /\ \A k \in DOMAIN chain_outputs : chain_result[k] = chain_outputs[k]
             /\ \A k \in (DOMAIN chain_inputs) \ (DOMAIN chain_outputs) :
                    chain_result[k] = chain_inputs[k]

\* C3 witness: a call with return_only_outputs=False returned, and an output
\* key is also an input key carrying a different value.
C3_Witness ==
    /\ chain_status = "returned"
    /\ ~chain_ronly
    /\ \E k \in (DOMAIN chain_inputs) \cap (DOMAIN chain_outputs) :
           chain_inputs[k] # chain_outputs[k]
    /\ (DOMAIN chain_inputs) \ (DOMAIN chain_outputs) # {}

----------------------------------------------------------------------------
(* Properties of MRKLOutputParser.parse *)

\* The parser's Action marker, Action\s*\d*\s*: , occupies t[i..e-1].
IsActionMarker(t, i, e) ==
    /\ i \in 1..Len(t) /\ e \in (i+2)..(Len(t)+1)
    /\ t[i] = "A" /\ t[e-1] = "C"
    /\ \E a \in i..(e-2), b \in i..(e-2) :
          /\ a <= b
          /\ \A k \in (i+1)..a : t[k] = "S"
          /\ \A k \in (a+1)..b : t[k] = "D"
          /\ \A k \in (b+1)..(e-2) : t[k] = "S"

\* The parser's Action Input marker, Action\s*\d*\s*Input\s*\d*\s*: , starts at j.
IsActionInputMarker(t, j) ==
    /\ j \in 1..Len(t) /\ t[j] = "A"
    /\ \E n \in (j+1)..Len(t), e \in (j+3)..(Len(t)+1) :
          /\ n < e - 1
          /\ t[n] = "N" /\ t[e-1] = "C"
          /\ \E a \in j..(n-1), b \in j..(n-1) :
                /\ a <= b
                /\ \A k \in (j+1)..a : t[k] = "S"
                /\ \A k \in (a+1)..b : t[k] = "D"
                /\ \A k \in (b+1)..(n-1) : t[k] = "S"
          /\ \E a \in n..(e-2), b \in n..(e-2) :
                /\ a <= b
                /\ \A k \in (n+1)..a : t[k] = "S"
                /\ \A k \in (a+1)..b : t[k] = "D"
                /\ \A k \in (b+1)..(e-2) : t[k] = "S"

\* The text holds an Action marker followed later by an Action Input marker.
HasActionPair(t) ==
    \E i \in 1..Len(t), e \in 1..(Len(t)+1) :
        /\ IsActionMarker(t, i, e)
        /\ \E j \in e..Len(t) : IsActionInputMarker(t, j)

\* C4 (as claimed): Final Answer: is only a fallback: every text holding an
\* Action / Action Input pair yields the AgentAction, and AgentFinish is
\* returned only for texts with Final Answer: and no such pair.
C4_Original ==
    parsed.kind # "none" =>
        /\ HasActionPair(text) => parsed.kind = "AgentAction"
        /\ parsed.kind = "AgentFinish" => (HasFinalAnswer(text) /\ ~HasActionPair(text))

\* C4 (amended): Final Answer: takes precedence: every text that contains
\* Final Answer: yields AgentFinish, with or without an Action / Action Input
\* pair, and the AgentAction built from the pair is returned exactly for the
\* texts that hold such a pair and no Final Answer:.
C4_FinalAnswerFirst ==
    parsed.kind # "none" =>
        /\ HasFinalAnswer(text) <=> parsed.kind = "AgentFinish"
        /\ (HasActionPair(text) /\ ~HasFinalAnswer(text)) <=> parsed.kind = "AgentAction"
        /\ parsed.kind = "AgentAction" =>
              \E i \in 1..Len(text), e \in 1..(Len(text)+1), j \in 1..Len(text) :
                  /\ IsActionMarker(text, i, e) /\ j >= e /\ IsActionInputMarker(text, j)
                  /\ \A k \in e..(j-1) : ~IsActionInputMarker(text, k)
                  /\ \A k \in 1..(i-1), ke \in 1..(Len(text)+1) : ~IsActionMarker(text, k, ke)
                  /\ parsed.tool = Strip(text, e, j - 1)

\* C4 witness: a text with both an Action / Action Input pair and
\* Final Answer: has been parsed.
C4_Witness ==
    /\ parsed.kind = "AgentFinish"
    /\ HasActionPair(text)

\* C5: parse has exactly one of three outcomes, and it raises
\* OutputParserException if and only if the text contains neither
\* Final Answer: nor an Action marker followed later by an Action Input marker.
C5_ThreeOutcomes ==
    parsed.kind # "none" =>
        /\ parsed.kind \in {"AgentAction", "AgentFinish", "OutputParserException"}
        /\ parsed.kind = "OutputParserException" <=>
              (~HasFinalAnswer(text) /\ ~HasActionPair(text))

\* C5 witness: a text with an Action marker and an Action Input marker in
\* the wrong order, and no Final Answer:, has raised.
C5_Witness ==
    /\ parsed.kind = "OutputParserException"
    /\ \E i \in 1..Len(text), e \in 1..(Len(text)+1) : IsActionMarker(text, i, e)
    /\ \E j \in 1..Len(text) : IsActionInputMarker(text, j)

----------------------------------------------------------------------------
(* Properties of NebulaGraph.query *)

\* C6 (as claimed): within one top-level call execute_parameter is attempted
\* at most 3 times in total.
C6_Original == Len(neb_log) <= RETRY_TIMES

\* C6 (amended): within one top-level call execute_parameter is attempted at
\* most RETRY_TIMES + 1 = 4 times in total, the first attempt and 3 retries.
C6_AtMostFourAttempts == Len(neb_log) <= RETRY_TIMES + 1

\* C6 witness: a call has used all 4 attempts under a mix of RuntimeError
\* and connection failures.
C6_Witness ==
    /\ Len(neb_log) = RETRY_TIMES + 1
    /\ \E i \in DOMAIN neb_log : neb_log[i] = "RuntimeError"
    /\ \E i \in DOMAIN neb_log : neb_log[i] \in ConnectionErrors

\* C7: every top-level call either returns the result of a successful
\* execute_parameter or raises ValueError; it never returns normally
\* without a query result.
C7_ResultOrValueError ==
    neb_status \in {"idle", "running", "returned", "ValueError"}

----------------------------------------------------------------------------
(* Properties of RouterRunnable.batch / abatch *)

\* C8: during abatch with a config whose max_concurrency is n, never are
\* more than n of the selected runnables' ainvoke calls in progress.
C8_AbatchConcurrencyCap ==
    (rt_mode = "abatch" /\ rt_config.limited) =>
        Cardinality({i \in DOMAIN rt_task : rt_task[i] = "running"}) <= rt_config.n

\* C8 witness: an abatch with max_concurrency n has n calls in progress and
\* a further call held back.
C8_Witness ==
    /\ rt_mode = "abatch"
    /\ rt_config.limited
    /\ Cardinality({i \in DOMAIN rt_task : rt_task[i] = "running"}) = rt_config.n
    /\ \E i \in DOMAIN rt_task : rt_task[i] = "pending"
    /\ \E i \in DOMAIN rt_task : rt_task[i] = "done"

\* C9: batch and abatch return a list as long as inputs whose i-th element
\* is the result of the runnable registered under inputs[i].key applied to
\* inputs[i].input, whatever the completion order; with return_exceptions
\* a failing call's exception sits at its own position and the others are
\* unaffected.
C9_ResultsInInputOrder ==
    rt_status = "returned" =>
        /\ Len(rt_result) = Len(rt_inputs)
        /\ \A i \in DOMAIN rt_inputs :
              /\ rt_inputs[i].key \in RunnableKeys
              /\ rt_result[i] = Invoke(rt_inputs[i].key, rt_inputs[i].input)
        /\ ~rt_rexc => \A i \in DOMAIN rt_result : rt_result[i].ok

\* C9 witness: a batch with return_exceptions returned although its calls
\* completed out of input order, one of them with an exception.
C9_Witness ==
    /\ rt_status = "returned"
    /\ rt_rexc
    /\ Len(rt_order) >= 2
    /\ rt_order[1] > rt_order[2]
    /\ \E i \in DOMAIN rt_result : ~rt_result[i].ok
    /\ \E i \in DOMAIN rt_result : rt_result[i].ok /\ rt_result[i].by = "a"
    /\ \E i \in DOMAIN rt_result : rt_result[i].ok /\ rt_result[i].by = "b"

----------------------------------------------------------------------------
(* Properties of ConversationTokenBufferMemory.save_context *)

\* C10: after every save_context call that returns, the token count of the
\* stored message buffer, as the llm measures it, is at most max_token_limit.
C10_BufferWithinLimit ==
    tb_status = "returned" => tb_overhead + SumSeq(tb_buffer) <= tb_limit

\* C10 witness: a save_context returned after pruning more than the
\* messages it had just added would account for, and kept a message.
C10_Witness ==
    /\ tb_status = "returned"
    /\ tb_saves >= 2
    /\ tb_buffer # <<>>
    /\ Len(tb_buffer) = 1
    /\ SumSeq(tb_added) > tb_limit

----------------------------------------------------------------------------
(* Properties of RecursiveUrlLoader *)

\* C11: for the same start URL, site and settings, load with use_async=True
\* returns Documents for the same set of page URLs as load with
\* use_async=False.
C11_AsyncSameUrlsAsSync ==
    ld_phase = "done" => ld_async_docs = ld_sync_docs

\* the URLs reached from the start URL by following exactly d links
RECURSIVE ReachedBy(_)
ReachedBy(d) ==
    IF d = 0 THEN {RootUrl}
    ELSE UNION {GetSubLinks(ld_site[u], RootUrl, ld_prevent) :
                  u \in ReachedBy(d - 1) \cap DOMAIN ld_site}

\* C12: the synchronous load fetches and yields only at recursion depths
\* below max_depth: every fetch is of a URL reached from the start URL by
\* following fewer than max_depth links, every Document is of a fetched
\* URL, and with max_depth = 0 nothing is fetched or yielded.
C12_SyncDepthBelowMax ==
    /\ \A f \in ld_sync_fetched :
          /\ f.depth < ld_max_depth
          /\ f.url \in ReachedBy(f.depth)
    /\ ld_sync_docs \subseteq {f.url : f \in ld_sync_fetched}
    /\ (piece = "loader" /\ ld_max_depth = 0)
          => (ld_sync_fetched = {} /\ ld_sync_docs = {})

\* a page one link below the deepest level allowed was fetched and yielded,
\* and the links of that page were passed over
C12_Witness ==
    /\ ld_phase = "done"
    /\ ld_max_depth = 2
    /\ Frame(P1, 1) \in ld_sync_fetched
    /\ P1 \in ld_sync_docs
    /\ Abs(P2) \in ld_site[P1]
    /\ P2 \notin ld_sync_docs

\* C13: with prevent_outside=True every URL fetched, and every URL a
\* Document is returned for, starts with the loader's url.
C13_OnlyChildrenOfRoot ==
    ld_prevent =>
        \A u \in {f.url : f \in ld_sync_fetched} \cup ld_sync_docs
                 \cup ld_async_fetched \cup ld_async_docs :
            StartsWith(u, RootUrl)

\* C14: no Document of the synchronous or of the asynchronous load has a
\* source that starts with one of exclude_dirs.
C14_NoExcludedDocument ==
    \A u \in ld_sync_docs \cup ld_async_docs : ~Excluded(u, ld_exclude)

----------------------------------------------------------------------------
(* Properties of SQLChatMessageHistory *)

\* C15: in sync mode, whatever add_message, add_messages and clear calls
\* were made on the histories of a table, messages of the history with
\* session_id s returns exactly the messages added under s since the last
\* clear of s, in the order they were added.
C15_MessagesOfSessionInOrder ==
    (~sq_async /\ sq_read # NoRead)
        => sq_read.result = sq_expected[sq_read.session_id]

\* both sessions hold messages in the table, and the read of s1 returns the
\* two different messages an add_messages call stored after an s2 row
C15_Witness ==
    /\ ~sq_async
    /\ sq_read.session_id = "s1"
    /\ Len(sq_read.result) = 2
    /\ sq_read.result[1] # sq_read.result[2]
    /\ sq_read.records[1].id = 2
    /\ sq_read.records[2].call = sq_batch.call
    /\ sq_batch.status = "committed"
    /\ Len(sq_expected["s2"]) = 1

\* the rows of the add_messages call under way or last ended among rows
BatchRows(rows) == {r \in rows : r.call = sq_batch.call}

\* C16: the rows of a batch are visible all together or not at all, in the
\* table and in what a concurrent reader of the session got, also after a
\* failure part-way through the batch.
C16_BatchAllOrNothing ==
    sq_batch.status # "none" =>
        /\ Cardinality(BatchRows(sq_table)) \in {0, Len(sq_batch.messages)}
        /\ (sq_read # NoRead /\ sq_read.session_id = sq_batch.session_id) =>
              Cardinality(BatchRows({sq_read.records[i] :
                                       i \in 1..Len(sq_read.records)}))
                  \in {0, Len(sq_batch.messages)}
        /\ sq_batch.status = "failed" => BatchRows(sq_table) = {}

\* a reader of the batch's session runs while the second of two messages is
\* still to be added, and sees the earlier rows of the session only
C16_Witness ==
    /\ sq_batch.status = "open"
    /\ Len(sq_batch.messages) = 2
    /\ Len(sq_batch.pending) = 1
    /\ sq_read.session_id = sq_batch.session_id
    /\ Len(sq_read.result) = 1

----------------------------------------------------------------------------
(* Properties of _unique_documents *)

\* two documents are duplicates: equal page_content and equal metadata
Duplicates(a, b) ==
    /\ a.page_content = b.page_content
    /\ MetadataEq(a.metadata, b.metadata)

=============================================================================
